---- MODULE Spec2Model ----
(***************************************************************************)
(* Marks-entry row calculator (main.js, calculateRow) of the SPAS teacher  *)
(* module.  One row of the enter_marks page per student: six text inputs,  *)
(* the 'error' class of the checked inputs, and the total / final /        *)
(* hidden final / grade / risk targets that calculateRow overwrites.       *)
(* The coordinator pages (coordinator.js) follow: their forms, the submit  *)
(* button, the requests in flight and the window properties they share.    *)
(*                                                                         *)
(* Texts (input values, textContent) are sequences of one-character        *)
(* strings.  JavaScript numbers are IEEE-754 doubles: the two quotients    *)
(* the handler rounds are computed here bit by bit, with a 53-bit          *)
(* significand and round-to-nearest-even after the division and after the  *)
(* multiplication, as the engine computes them.                            *)
(***************************************************************************)
EXTENDS Integers, Sequences, FiniteSets, Bags, TLC

(***************************************************************************)
(* Texts                                                                   *)
(***************************************************************************)
Digits == <<"0", "1", "2", "3", "4", "5", "6", "7", "8", "9">>

\* The white space parseInt skips (StrWhiteSpaceChar): TAB, LF, VT, FF, CR,
\* the space, the no-break space, the byte order mark, the Ogham space mark,
\* the space separators U+2000 to U+200A, U+202F, U+205F, U+3000, and the
\* line and paragraph separators U+2028, U+2029.  A character of a text is a
\* string of one character; a character that cannot be written in a string
\* of this language is the string that names its code point ("U+3000").
WhiteSpace == {"\t", "\n", "", "\f", "\r", " ", " ", "﻿", " ",
               "U+2000", "U+2001", "U+2002", "U+2003", "U+2004", "U+2005",
               "U+2006", "U+2007", "U+2008", "U+2009", "U+200A", "U+2028",
               "U+2029", "U+202F", "U+205F", "U+3000"}

IsSpace(c) == c \in WhiteSpace

\* The digits of the radixes parseInt uses here, 10 and 16.
HexDigits == <<"0", "1", "2", "3", "4", "5", "6", "7", "8", "9",
               "a", "b", "c", "d", "e", "f">>

UpperHexDigits == <<"A", "B", "C", "D", "E", "F">>

\* The value of c as a digit; 16 when c is no digit of either radix.
RadixVal(c) ==
    IF \E d \in 1..16 : HexDigits[d] = c
    THEN (CHOOSE d \in 1..16 : HexDigits[d] = c) - 1
    ELSE IF \E d \in 1..6 : UpperHexDigits[d] = c
    THEN (CHOOSE d \in 1..6 : UpperHexDigits[d] = c) + 9
    ELSE 16

IsRadixDigit(c, radix) == RadixVal(c) < radix

\* Number -> String of an integer (textContent = total, value = final).
RECURSIVE NatText(_)
NatText(n) == IF n < 10 THEN <<Digits[n + 1]>>
              ELSE NatText(n \div 10) \o <<Digits[(n % 10) + 1]>>

ToText(n) == IF n < 0 THEN <<"-">> \o NatText(0 - n) ELSE NatText(n)

\* The result of parseInt: NaN, or an integer.
NaN == [isNaN |-> TRUE, num |-> 0]

Num(n) == [isNaN |-> FALSE, num |-> n]

RECURSIVE SkipSpaces(_)
SkipSpaces(s) == IF s # <<>> /\ IsSpace(Head(s)) THEN SkipSpaces(Tail(s)) ELSE s

\* Value of the longest prefix of digits of the radix of s, continuing from
\* acc.  The texts of the model are short: the value is within the integers
\* of the checker, and so an exact double.
RECURSIVE DigitRun(_, _, _)
DigitRun(s, radix, acc) ==
    IF s # <<>> /\ IsRadixDigit(Head(s), radix)
    THEN DigitRun(Tail(s), radix, radix * acc + RadixVal(Head(s)))
    ELSE acc

\* parseInt(string) with no radix: leading white space, an optional sign, a
\* 0x or 0X prefix that makes the radix 16, then the longest run of digits of
\* the radix; NaN when there is no digit there.
parseInt(s) ==
    LET t     == SkipSpaces(s)
        neg   == t # <<>> /\ Head(t) = "-"
        sgn   == t # <<>> /\ Head(t) \in {"-", "+"}
        u     == IF sgn THEN Tail(t) ELSE t
        hex   == Len(u) >= 2 /\ u[1] = "0" /\ u[2] \in {"x", "X"}
        radix == IF hex THEN 16 ELSE 10
        body  == IF hex THEN Tail(Tail(u)) ELSE u
    IN  IF body = <<>> \/ ~IsRadixDigit(Head(body), radix) THEN NaN
        ELSE Num(IF neg THEN 0 - DigitRun(body, radix, 0) ELSE DigitRun(body, radix, 0))

\* Faulty variant: a value that is not a number reads as -1, which the range
\* checks reject.
parseIntOrMinusOne(s) == LET r == parseInt(s) IN IF r.isNaN THEN 0 - 1 ELSE r.num

\* parseInt(x) || 0 : NaN and 0 are falsy.
parseIntOrZero(s) == LET r == parseInt(s) IN IF r.isNaN THEN 0 ELSE r.num

(***************************************************************************)
(* Doubles.  A positive double is [d, e]: d = <<top, l1, l2, l3, l4>> are  *)
(* the digits of its significand N, top above four limbs of LimbBits bits, *)
(* and its value is N * 2^(e - 52) with                                    *)
(*    N = top * 2^52 + l1 * 2^39 + l2 * 2^26 + l3 * 2^13 + l4,             *)
(* N having at most MantissaBits significant bits.  The operands of the    *)
(* handler are small integers: b * 2^LimbBits and c * 2^LimbBits stay      *)
(* within the integers of the checker.                                     *)
(***************************************************************************)
MantissaBits == 53

LimbBits == 13

Base == 2^LimbBits

NumDigits == 1 + (MantissaBits - 1) \div LimbBits

\* Exponent of the weight of digit i of a significand.
Weight(i) == LimbBits * (NumDigits - i)

\* Largest t with b * 2^t <= a, for a >= b > 0.
RECURSIVE ShiftDown(_, _)
ShiftDown(a, b) == IF 2 * b <= a THEN 1 + ShiftDown(a, 2 * b) ELSE 0

\* Smallest s with a * 2^s >= b, for 0 < a.
RECURSIVE ShiftUp(_, _)
ShiftUp(a, b) == IF a >= b THEN 0 ELSE 1 + ShiftUp(2 * a, b)

\* Number of bits of v >= 0.
RECURSIVE BitLength(_)
BitLength(v) == IF v = 0 THEN 0 ELSE 1 + BitLength(v \div 2)

\* Long division r / b (0 <= r < b): the next n limbs of the quotient and the
\* remainder left after them.
RECURSIVE LongDiv(_, _, _)
LongDiv(r, b, n) ==
    IF n = 0 THEN [q |-> <<>>, r |-> r]
    ELSE LET v    == r * Base
             next == LongDiv(v % b, b, n - 1)
         IN  [q |-> <<v \div b>> \o next.q, r |-> next.r]

\* Carry every limb overflow of digits i, i-1, ..., 2 into the digit on its left.
RECURSIVE Carry(_, _)
Carry(d, i) ==
    IF i = 1 THEN d
    ELSE Carry([d EXCEPT ![i] = d[i] % Base, ![i - 1] = d[i - 1] + d[i] \div Base], i - 1)

\* a / b for integers a > 0, b > 0, rounded to nearest, ties to even: the
\* leading 1 and 52 quotient bits; the remainder says on which side of the
\* half-way point the exact quotient lies.
FloatDiv(a, b) ==
    LET down == a >= b
        t    == IF down THEN ShiftDown(a, b) ELSE 0
        s    == IF down THEN 0 ELSE ShiftUp(a, b)
        an   == a * 2^s
        bn   == b * 2^t
        q    == LongDiv(an - bn, bn, NumDigits - 1)
        d    == <<1>> \o q.q
        up   == 2 * q.r > bn \/ (2 * q.r = bn /\ d[NumDigits] % 2 = 1)
    IN  [d |-> IF up THEN Carry([d EXCEPT ![NumDigits] = @ + 1], NumDigits) ELSE d,
         e |-> t - s]

\* Round the exact significand d to MantissaBits significant bits, to nearest,
\* ties to even: the bits below the kept ones all lie in the last limb.
RoundSignificand(d) ==
    LET drop == BitLength(d[1]) - 1
        low  == d[NumDigits] % 2^drop
        odd  == (d[NumDigits] \div 2^drop) % 2 = 1
        up   == drop > 0 /\ (2 * low > 2^drop \/ (2 * low = 2^drop /\ odd))
        last == d[NumDigits] - low + (IF up THEN 2^drop ELSE 0)
    IN  Carry([d EXCEPT ![NumDigits] = last], NumDigits)

\* x * c for a double x > 0 and an integer c > 0.
FloatMul(x, c) ==
    [d |-> RoundSignificand(Carry([i \in 1..NumDigits |-> x.d[i] * c], NumDigits)),
     e |-> x.e]

\* floor(N / 2^h) for the significand d of N: the bits of every digit above bit h.
WholePart(d, h) ==
    LET part(i) == IF Weight(i) >= h THEN d[i] * 2^(Weight(i) - h)
                   ELSE IF h - Weight(i) > LimbBits THEN 0
                   ELSE d[i] \div 2^(h - Weight(i))
        RECURSIVE sum(_)
        sum(i) == IF i = 0 THEN 0 ELSE part(i) + sum(i - 1)
    IN  sum(NumDigits)

\* Bit j of N is set.
BitAt(d, j) ==
    \E i \in 1..NumDigits :
        /\ Weight(i) <= j
        /\ j - Weight(i) <= LimbBits
        /\ (d[i] \div 2^(j - Weight(i))) % 2 = 1

\* Some bit of N below bit j is set.
BitsBelow(d, j) ==
    \E i \in 1..NumDigits :
        /\ Weight(i) < j
        /\ IF j - Weight(i) > LimbBits THEN d[i] # 0 ELSE d[i] % 2^(j - Weight(i)) # 0

\* Math.round of the double with magnitude x and the given sign: the nearest
\* integer, a tie going towards plus infinity.
MathRound(negative, x) ==
    LET h     == (MantissaBits - 1) - x.e
        whole == WholePart(x.d, h)
        half  == BitAt(x.d, h - 1)
        more  == BitsBelow(x.d, h - 1)
    IN  IF negative
        THEN 0 - (whole + (IF half /\ more THEN 1 ELSE 0))
        ELSE whole + (IF half THEN 1 ELSE 0)

\* Math.round((a / b) * c) for integers a, b > 0, c > 0.
RoundDivMul(a, b, c) ==
    IF a = 0 THEN 0
    ELSE MathRound(a < 0, FloatMul(FloatDiv(IF a < 0 THEN 0 - a ELSE a, b), c))

(***************************************************************************)
(* calculateRow: the values it derives                                     *)
(***************************************************************************)
\* total_classes > 0 ? Math.round((attended / total_classes) * 100) : 0
attendance_percent(total_classes, attended) ==
    IF total_classes > 0 THEN RoundDivMul(attended, total_classes, 100) ELSE 0

\* Faulty variant: the first internal is subtracted.
totalLessInternal1(i1, i2, assign, sem) == i2 - i1 + assign + sem

\* i1 + i2 + assign + sem
total(i1, i2, assign, sem) == i1 + i2 + assign + sem

\* Faulty variant: the quotient is truncated instead of rounded.
finalTruncated(t) == (20 * t) \div 160

\* Faulty variant: the final is scaled to 100 like the attendance.
finalAsPercent(t) == RoundDivMul(t, 160, 100)

\* Math.round((total / 160) * 20)
final(t) == RoundDivMul(t, 160, 20)

\* Faulty variant: the thresholds are exclusive.
gradeStrict(f) ==
    IF f > 18 THEN "A+"
    ELSE IF f > 15 THEN "A"
    ELSE IF f > 12 THEN "B"
    ELSE IF f > 10 THEN "C"
    ELSE "D"

grade(f) ==
    IF f >= 18 THEN "A+"
    ELSE IF f >= 15 THEN "A"
    ELSE IF f >= 12 THEN "B"
    ELSE IF f >= 10 THEN "C"
    ELSE "D"

gradeClass(g) ==
    IF g = "A+" THEN "grade-aplus"
    ELSE IF g = "A" THEN "grade-a"
    ELSE IF g = "B" THEN "grade-b"
    ELSE IF g = "C" THEN "grade-c"
    ELSE "grade-d"

\* Faulty variant: the final is looked at before the attendance.
riskFinalFirst(percent, f) ==
    IF f = 20 THEN "Best"
    ELSE IF percent < 70 \/ f < 10 THEN "Critical"
    ELSE IF f < 15 THEN "Average"
    ELSE "Safe"

\* Faulty variant: only the attendance makes a row Critical.
riskAttendanceOnly(percent, f) ==
    IF percent < 70 THEN "Critical"
    ELSE IF f < 15 THEN "Average"
    ELSE IF f = 20 THEN "Best"
    ELSE "Safe"

\* Faulty variant: Best is given from a final of 18, as the grade A+ is.
riskBestFrom18(percent, f) ==
    IF percent < 70 \/ f < 10 THEN "Critical"
    ELSE IF f < 15 THEN "Average"
    ELSE IF f >= 18 THEN "Best"
    ELSE "Safe"

risk(percent, f) ==
    IF percent < 70 \/ f < 10 THEN "Critical"
    ELSE IF f < 15 THEN "Average"
    ELSE IF f = 20 THEN "Best"
    ELSE "Safe"

riskClass(r) ==
    IF r = "Critical" THEN "risk-critical"
    ELSE IF r = "Average" THEN "risk-average"
    ELSE IF r = "Safe" THEN "risk-safe"
    ELSE "risk-best"

\* The markup written into the grade and risk targets, as the pieces of the
\* template literal.
gradeBadge(g) == <<"<span class=\"grade-badge ", gradeClass(g), "\">", g, "</span>">>

riskBadge(r) == <<"<span class=\"risk-badge ", riskClass(r), "\">", r, "</span>">>

ERR == <<"E", "R", "R">>

Placeholder == <<"-">>

(***************************************************************************)
(* The marks-entry page                                                    *)
(***************************************************************************)
\* The inputs of a row, by name.
InputNames == {"total_classes[]", "attended_classes[]", "internal1[]",
               "internal2[]", "assignment[]", "seminar[]"}

\* Student identifiers calculateRow is called with; those with a row on the page.
StudentIds == {1, 2}

RowIds == {1}

\* How far outside its domain a typed number goes.
Overshoot == 1

Below == {0 - k : k \in 1..Overshoot}

Above(limit) == {limit + k : k \in 1..Overshoot}

Blank == <<>>

Texts(numbers) == {Blank} \cup {ToText(n) : n \in numbers}

\* 70 written in hexadecimal, and 40 after a TAB.
HexSeventy == <<"0", "x", "4", "6">>

TabForty == <<"\t", "4", "0">>

\* The texts a user enters into each input of a row.
InputTexts ==
    [n \in InputNames |->
        CASE n = "total_classes[]"    -> Texts({40, 50} \cup Below)
          [] n = "attended_classes[]" -> Texts({23, 28, 30, 40} \cup Below)
          [] n = "internal1[]"        -> Texts({20, 60, 70} \cup Above(70))
          [] n = "internal2[]"        -> Texts({20, 55} \cup Above(70)) \cup {HexSeventy}
          [] n = "assignment[]"       -> Texts({8, 10} \cup Above(10))
          [] n = "seminar[]"          -> Texts({7, 10} \cup Below)]

\* The output targets of a row, by the prefix of their element identifier, in
\* the order in which either branch of calculateRow writes them.
Targets == <<"total", "final", "final-calc", "grade", "risk">>

VARIABLES
    value,        \* value[id][name]: the text in the input of that name of row id
    errorClass,   \* errorClass[id]: the inputs of row id whose classList has 'error'
    totalText,    \* textContent of total-<id>
    finalText,    \* textContent of final-<id>
    finalCalc,    \* value of the hidden field final-calc-<id>
    gradeHtml,    \* innerHTML of grade-<id>
    riskHtml,     \* innerHTML of risk-<id>
    computed,     \* the locals of the last call for id: <<>> when it returned early
    phase,        \* phase[id]: "loaded" as rendered, "edited" with an input event
                  \* pending, "done" once calculateRow has run on the current
                  \* inputs, "again" once it has run on them more than once
    targets,      \* targets[id]: the output targets of row id present in the document
    thrown,       \* the last handler call ended in an uncaught TypeError
    page,         \* the page loaded: "marks", "timetable", "rooms" or "invigilators"
    form,         \* form[field]: the value of a control of the coordinator form
    disabled,     \* the disabled property of the form's submit button
    inflight,     \* the requests sent and not yet answered
    globals,      \* the window properties the coordinator modules use
    preview,      \* the rows of the preview table: <<>> while the section is hidden
    event         \* the coordinator handler that ran last

marksVars == <<value, errorClass, totalText, finalText, finalCalc, gradeHtml, riskHtml,
               computed, phase, targets>>

coordinatorVars == <<page, form, disabled, inflight, globals, preview, event>>

vars == <<marksVars, thrown, coordinatorVars>>

\* The coordinator modules are not loaded on the marks-entry page.
NoCoordinator ==
    /\ page     = "marks"
    /\ form     = <<>>
    /\ disabled = FALSE
    /\ inflight = EmptyBag
    /\ globals  = <<>>
    /\ preview  = <<>>
    /\ event    = "ready"

\* The marks-entry page as rendered with the given rows, each with the given
\* output targets: empty inputs, empty targets, calculateRow not yet run.
Rendered(rows, present) ==
    /\ value      = [id \in rows |-> [n \in InputNames |-> Blank]]
    /\ errorClass = [id \in rows |-> {}]
    /\ totalText  = [id \in rows |-> <<>>]
    /\ finalText  = [id \in rows |-> <<>>]
    /\ finalCalc  = [id \in rows |-> <<>>]
    /\ gradeHtml  = [id \in rows |-> <<>>]
    /\ riskHtml   = [id \in rows |-> <<>>]
    /\ computed   = [id \in rows |-> <<>>]
    /\ phase      = [id \in rows |-> "loaded"]
    /\ targets    = [id \in rows |-> present]
    /\ thrown     = FALSE

AllTargets == {Targets[k] : k \in DOMAIN Targets}

Init == Rendered(RowIds, AllTargets) /\ NoCoordinator

\* The user replaces the text of one input of a row; its input event is
\* handled before the next edit of the row.
EditInput(id, name, text) ==
    /\ id \in DOMAIN value
    /\ phase[id] # "edited"
    /\ text # value[id][name]
    /\ value' = [value EXCEPT ![id][name] = text]
    /\ phase' = [phase EXCEPT ![id] = "edited"]
    /\ UNCHANGED <<errorClass, totalText, finalText, finalCalc, gradeHtml, riskHtml,
                   computed, targets, thrown, coordinatorVars>>

\* The numbers calculateRow reads from the inputs of a row.
readRow(studentId) ==
    [total_classes |-> parseIntOrZero(value[studentId]["total_classes[]"]),
     attended      |-> parseIntOrZero(value[studentId]["attended_classes[]"]),
     i1            |-> parseIntOrZero(value[studentId]["internal1[]"]),
     i2            |-> parseIntOrZero(value[studentId]["internal2[]"]),
     assign        |-> parseIntOrZero(value[studentId]["assignment[]"]),
     sem           |-> parseIntOrZero(value[studentId]["seminar[]"])]

\* The inputs whose range check fails.
outOfRange(r) ==
    {n \in InputNames :
        \/ n = "attended_classes[]" /\ r.attended > r.total_classes
        \/ n = "internal1[]"        /\ (r.i1 < 0 \/ r.i1 > 70)
        \/ n = "internal2[]"        /\ (r.i2 < 0 \/ r.i2 > 70)
        \/ n = "assignment[]"       /\ (r.assign < 0 \/ r.assign > 10)
        \/ n = "seminar[]"          /\ (r.sem < 0 \/ r.sem > 10)}

hasError(r) == outOfRange(r) # {}

\* Faulty variant: the error class is added and never removed.
MarkNeverCleared(classes, name, bad) == IF bad THEN classes \cup {name} ELSE classes

\* Faulty variant: classList.toggle('error') in place of add.
MarkToggled(classes, name, bad) ==
    IF bad
    THEN (IF name \in classes THEN classes \ {name} ELSE classes \cup {name})
    ELSE classes \ {name}

\* classList.add('error') when bad, classList.remove('error') otherwise.
Mark(classes, name, bad) == IF bad THEN classes \cup {name} ELSE classes \ {name}

\* The five range checks in their order, each marking or clearing its input.
validate(classes, r) ==
    LET bad == outOfRange(r)
        c1  == Mark(classes, "attended_classes[]", "attended_classes[]" \in bad)
        c2  == Mark(c1, "internal1[]", "internal1[]" \in bad)
        c3  == Mark(c2, "internal2[]", "internal2[]" \in bad)
        c4  == Mark(c3, "assignment[]", "assignment[]" \in bad)
    IN  Mark(c4, "seminar[]", "seminar[]" \in bad)

\* The call gets as far as the write to the k-th target: getElementById gave
\* an element for it and for every target written before it.
Reached(studentId, k) == \A j \in 1..k : Targets[j] \in targets[studentId]

\* document.getElementById(...).textContent = v (or .value, .innerHTML) as the
\* k-th write of the call: a TypeError on a missing element ends the call.
Write(f, studentId, k, v) ==
    IF Reached(studentId, k) THEN [f EXCEPT ![studentId] = v] ELSE f

\* Faulty variant: the error branch leaves the hidden final value as it was.
showErrorStaleFinal(studentId) ==
    /\ totalText' = Write(totalText, studentId, 1, ERR)
    /\ finalText' = Write(finalText, studentId, 2, ERR)
    /\ gradeHtml' = Write(gradeHtml, studentId, 4, Placeholder)
    /\ riskHtml'  = Write(riskHtml, studentId, 5, Placeholder)
    /\ computed'  = [computed EXCEPT ![studentId] = <<>>]
    /\ thrown'    = ~Reached(studentId, 5)
    /\ UNCHANGED finalCalc

\* Faulty variant: the error branch leaves the grade and risk badges as they were.
showErrorStaleBadges(studentId) ==
    /\ totalText' = Write(totalText, studentId, 1, ERR)
    /\ finalText' = Write(finalText, studentId, 2, ERR)
    /\ finalCalc' = Write(finalCalc, studentId, 3, <<"0">>)
    /\ computed'  = [computed EXCEPT ![studentId] = <<>>]
    /\ thrown'    = ~Reached(studentId, 3)
    /\ UNCHANGED <<gradeHtml, riskHtml>>

\* if (hasError) { ... return; }
showError(studentId) ==
    /\ totalText' = Write(totalText, studentId, 1, ERR)
    /\ finalText' = Write(finalText, studentId, 2, ERR)
    /\ finalCalc' = Write(finalCalc, studentId, 3, <<"0">>)
    /\ gradeHtml' = Write(gradeHtml, studentId, 4, Placeholder)
    /\ riskHtml'  = Write(riskHtml, studentId, 5, Placeholder)
    /\ computed'  = [computed EXCEPT ![studentId] = <<>>]
    /\ thrown'    = ~Reached(studentId, 5)

\* The rest of the handler: derive the values and write them to the targets.
showResult(studentId, r) ==
    LET percent == attendance_percent(r.total_classes, r.attended)
        t       == total(r.i1, r.i2, r.assign, r.sem)
        f       == final(t)
    IN  /\ totalText' = Write(totalText, studentId, 1, ToText(t))
        /\ finalText' = Write(finalText, studentId, 2, ToText(f))
        /\ finalCalc' = Write(finalCalc, studentId, 3, ToText(f))
        /\ gradeHtml' = Write(gradeHtml, studentId, 4, gradeBadge(grade(f)))
        /\ riskHtml'  = Write(riskHtml, studentId, 5, riskBadge(risk(percent, f)))
        /\ computed'  = [computed EXCEPT ![studentId] =
                            IF Reached(studentId, 5)
                            THEN <<[attendance_percent |-> percent, total |-> t, final |-> f]>>
                            ELSE <<>>]
        /\ thrown'    = ~Reached(studentId, 5)

\* Faulty variant: the inputs are looked up in the document, not in the row,
\* so that the error marks go to the first row of the page.
calculateRowFirstInputs(studentId) ==
    IF studentId \notin DOMAIN value
    THEN thrown' = FALSE /\ UNCHANGED <<marksVars, coordinatorVars>>
    ELSE LET r     == readRow(studentId)
             first == CHOOSE id \in DOMAIN value : \A other \in DOMAIN value : id <= other
         IN  /\ errorClass' = [errorClass EXCEPT ![first] = validate(@, r)]
             /\ IF hasError(r) THEN showError(studentId) ELSE showResult(studentId, r)
             /\ phase' = [phase EXCEPT ![studentId] =
                             IF @ \in {"done", "again"} THEN "again" ELSE "done"]
             /\ UNCHANGED <<value, targets, coordinatorVars>>

calculateRow(studentId) ==
    IF studentId \notin DOMAIN value
    THEN thrown' = FALSE /\ UNCHANGED <<marksVars, coordinatorVars>>
    ELSE LET r == readRow(studentId)
         IN  /\ errorClass' = [errorClass EXCEPT ![studentId] = validate(@, r)]
             /\ IF hasError(r) THEN showError(studentId) ELSE showResult(studentId, r)
             /\ phase' = [phase EXCEPT ![studentId] =
                             IF @ \in {"done", "again"} THEN "again" ELSE "done"]
             /\ UNCHANGED <<value, targets, coordinatorVars>>

Next ==
    \/ \E id \in RowIds, name \in InputNames :
          \E text \in InputTexts[name] : EditInput(id, name, text)
    \/ \E id \in StudentIds : calculateRow(id)

Spec == Init /\ [][Next]_vars

(***************************************************************************)
(* The marks-entry page with a row for each of two students.               *)
(***************************************************************************)
PageRows == {1, 2}

NotANumber == <<"a", "b", "c">>

\* The texts a user enters into each input of either row.
RowTexts ==
    [n \in InputNames |->
        CASE n = "total_classes[]"    -> Texts({50})
          [] n = "attended_classes[]" -> {Blank, TabForty}
          [] n = "internal1[]"        -> Texts(Above(70)) \cup {NotANumber, HexSeventy}
          [] n = "internal2[]"        -> {Blank}
          [] n = "assignment[]"       -> {Blank}
          [] n = "seminar[]"          -> {Blank, NotANumber}]

InitRows == Rendered(PageRows, AllTargets) /\ NoCoordinator

NextRows ==
    \/ \E id \in PageRows, name \in InputNames :
          \E text \in RowTexts[name] : EditInput(id, name, text)
    \/ \E id \in PageRows : calculateRow(id)

SpecRows == InitRows /\ [][NextRows]_vars

(***************************************************************************)
(* A marks-entry page whose row lacks some of its output targets.          *)
(***************************************************************************)
InitTargets ==
    /\ \E present \in SUBSET AllTargets : Rendered(RowIds, present)
    /\ NoCoordinator

NextTargets ==
    \/ \E id \in RowIds, name \in InputNames :
          \E text \in RowTexts[name] : EditInput(id, name, text)
    \/ \E id \in StudentIds : calculateRow(id)

SpecTargets == InitTargets /\ [][NextTargets]_vars

(***************************************************************************)
(* Two rows that differ in internal1 alone, with the marks typed in and    *)
(* the handler about to run on each.                                       *)
(***************************************************************************)
MaxInternal == 70

\* The marks of the two rows other than internal1.
OtherMarks == [i2 : {0, MaxInternal}, assign : {10}, sem : {5}]

Typed(i1, m) ==
    [n \in InputNames |->
        CASE n = "internal1[]"  -> ToText(i1)
          [] n = "internal2[]"  -> ToText(m.i2)
          [] n = "assignment[]" -> ToText(m.assign)
          [] n = "seminar[]"    -> ToText(m.sem)
          [] OTHER              -> Blank]

InitRaise ==
    /\ \E low \in 0..MaxInternal, high \in 0..MaxInternal, m \in OtherMarks :
          /\ low < high
          /\ value = [id \in PageRows |-> IF id = 1 THEN Typed(low, m) ELSE Typed(high, m)]
    /\ errorClass = [id \in PageRows |-> {}]
    /\ totalText  = [id \in PageRows |-> <<>>]
    /\ finalText  = [id \in PageRows |-> <<>>]
    /\ finalCalc  = [id \in PageRows |-> <<>>]
    /\ gradeHtml  = [id \in PageRows |-> <<>>]
    /\ riskHtml   = [id \in PageRows |-> <<>>]
    /\ computed   = [id \in PageRows |-> <<>>]
    /\ phase      = [id \in PageRows |-> "edited"]
    /\ targets    = [id \in PageRows |-> AllTargets]
    /\ thrown     = FALSE
    /\ NoCoordinator

NextRaise == \E id \in PageRows : calculateRow(id)

SpecRaise == InitRaise /\ [][NextRaise]_vars

(***************************************************************************)
(* The coordinator pages (coordinator.js): the timetable generator, the    *)
(* room allocator and the invigilator assigner, each on a page of its own. *)
(* A page starts at $(document).ready, its list requests just sent.  A     *)
(* request is in flight from $.ajax / $.get until its callback has run;    *)
(* the server answers in any order, and $.get has no error callback.  The  *)
(* requests in flight are a bag: the same request can be pending more than *)
(* once.                                                                   *)
(***************************************************************************)
Pages == {"timetable", "rooms", "invigilators"}

Dates == {"2025-03-10", "2025-03-11"}

Sessions == {"10AM"}

Departments == {"CS"}

Rooms == {"101"}

Teachers == {"T1", "T2"}

\* A window property that is null or undefined; a value v is held as <<v>>.
Null == <<>>

\* The most requests in flight at a time.
MaxInFlight == 3

GenerateUrl == "/coordinator/api/generate-timetable"

AllocateUrl == "/coordinator/api/allocate-rooms"

AssignUrl == "/coordinator/api/assign-invigilators"

StudentsUrl == "/coordinator/api/students-for-exam"

RoomsUrl == "/coordinator/api/rooms-for-session"

DepartmentsUrl == "/api/departments"

ExamDatesUrl == "/coordinator/api/exam-dates"

AllRoomsUrl == "/coordinator/api/rooms"

TeachersUrl == "/coordinator/api/teachers"

ConfirmTimetableUrl == "/coordinator/api/confirm-timetable"

ConfirmRoomsUrl == "/coordinator/api/confirm-room-allocation"

ConfirmAssignmentUrl == "/coordinator/api/confirm-invigilator-assignment"

SubmitUrls == {GenerateUrl, AllocateUrl, AssignUrl}

LoadUrls == {StudentsUrl, RoomsUrl}

ListUrls == {DepartmentsUrl, ExamDatesUrl, AllRoomsUrl, TeachersUrl}

ConfirmUrls == {ConfirmTimetableUrl, ConfirmRoomsUrl, ConfirmAssignmentUrl}

Request(url, data) == [url |-> url, data |-> data]

\* The requests in flight to one of the urls.
Sent(urls) == {r \in BagToSet(inflight) : r.url \in urls}

\* The list requests the init function of the module of a page sends.
ReadyUrls(p) ==
    CASE p = "timetable"    -> {DepartmentsUrl}
      [] p = "rooms"        -> {ExamDatesUrl, AllRoomsUrl}
      [] p = "invigilators" -> {ExamDatesUrl, TeachersUrl}

\* The form of a page at $(document).ready: empty selections, and no check
\* box and no option yet from a list; lists holds the urls whose answer has
\* been rendered into the form.
ReadyForm(p) ==
    CASE p = "timetable" ->
            [exam_date |-> "", session |-> "", academic_year |-> "", exam_type |-> "",
             departments |-> {}, lists |-> {}]
      [] p = "rooms" ->
            [exam_date |-> "", session |-> "", rooms |-> {}, lists |-> {}]
      [] p = "invigilators" ->
            [exam_date |-> "", session |-> "", room_id |-> "", teachers |-> {},
             lists |-> {}]

ReadyGlobals ==
    [generatedTimetable |-> Null, studentsForExam |-> Null,
     currentAllocation |-> Null, currentAssignments |-> Null,
     location |-> Null]

\* The values a control can be given: the options and check boxes of a
\* list are there once its answer has been rendered; the other controls
\* come with the page.
Options(field) ==
    LET Listed(url, items) ==
            IF page \in Pages /\ url \in form.lists THEN items ELSE {}
    IN  CASE field = "exam_date" ->
                {""} \cup (IF page = "timetable" THEN Dates
                           ELSE Listed(ExamDatesUrl, Dates))
          [] field = "session"       -> {""} \cup Sessions
          [] field = "academic_year" -> {"", "2024-25"}
          [] field = "exam_type"     -> {"", "internal"}
          [] field = "departments"   -> SUBSET Listed(DepartmentsUrl, Departments)
          [] field = "rooms"         -> SUBSET Listed(AllRoomsUrl, Rooms)
          [] field = "room_id"       -> {""} \cup Listed(RoomsUrl, Rooms)
          [] field = "teachers"      -> SUBSET Listed(TeachersUrl, Teachers)

\* The requests in flight right after $(document).ready on page p.
ReadyRequests(p) == SetToBag({Request(url, <<>>) : url \in ReadyUrls(p)})

\* $(document).ready on a coordinator page; there is no marks table on it.
InitCoordinator ==
    /\ Rendered({}, AllTargets)
    /\ page \in Pages
    /\ form     = ReadyForm(page)
    /\ disabled = FALSE
    /\ inflight = ReadyRequests(page)
    /\ globals  = ReadyGlobals
    /\ preview  = <<>>
    /\ event    = "ready"

\* RoomAllocator.loadStudents and InvigilatorAssigner.loadRooms: the request
\* for the date and session selected when the change handler runs.
loadStudents(f) == Request(StudentsUrl, [date |-> f.exam_date, session |-> f.session])

loadRooms(f) == Request(RoomsUrl, [date |-> f.exam_date, session |-> f.session])

\* The change handler of #examDate and #session.
onChange(f) ==
    IF f.exam_date = "" \/ f.session = "" THEN {}
    ELSE IF page = "rooms" THEN {loadStudents(f)}
    ELSE IF page = "invigilators" THEN {loadRooms(f)}
    ELSE {}

\* The user changes a control of the form.
Change(field, v) ==
    /\ page \in Pages
    /\ field \in DOMAIN form
    /\ v \in Options(field)
    /\ v # form[field]
    /\ LET f    == [form EXCEPT ![field] = v]
           sent == IF field \in {"exam_date", "session"} THEN onChange(f) ELSE {}
       IN  /\ BagCardinality(inflight) + Cardinality(sent) <= MaxInFlight
           /\ form' = f
           /\ inflight' = inflight (+) SetToBag(sent)
    /\ event' = "change"
    /\ thrown' = FALSE
    /\ UNCHANGED <<page, disabled, globals, preview, marksVars>>

\* What the server holds: the students who sit an exam on a date and session.
Enrolment(date, session) ==
    IF date = "2025-03-10" THEN <<"S1", "S2">> ELSE <<"S3">>

\* The callback of a $.get request, or no callback when the request fails.
\* A list callback renders its check boxes checked, or the options of
\* #examDate, the first and empty one selected; the callback of loadRooms
\* renders the options of #room likewise.
loaded(req, ok) ==
    /\ req \in Sent(LoadUrls \cup ListUrls)
    /\ inflight' = inflight (-) SetToBag({req})
    /\ IF ~ok
       THEN UNCHANGED <<globals, form>>
       ELSE IF req.url = StudentsUrl
       THEN /\ globals' = [globals EXCEPT !.studentsForExam =
                              <<Enrolment(req.data.date, req.data.session)>>]
            /\ UNCHANGED form
       ELSE /\ form' =
                 LET f == [form EXCEPT !.lists = @ \cup {req.url}]
                 IN  CASE req.url = RoomsUrl       -> [f EXCEPT !.room_id = ""]
                       [] req.url = ExamDatesUrl   -> [f EXCEPT !.exam_date = ""]
                       [] req.url = DepartmentsUrl -> [f EXCEPT !.departments = Departments]
                       [] req.url = AllRoomsUrl    -> [f EXCEPT !.rooms = Rooms]
                       [] req.url = TeachersUrl    -> [f EXCEPT !.teachers = Teachers]
            /\ UNCHANGED globals
    /\ event' = "loaded"
    /\ thrown' = FALSE
    /\ UNCHANGED <<page, disabled, preview, marksVars>>

\* The start of a submit handler: alert and return when a required field is
\* missing, else disable the button and send the form data.
send(url, formData, missing) ==
    /\ IF missing
       THEN UNCHANGED <<disabled, inflight>>
       ELSE /\ BagCardinality(inflight) < MaxInFlight
            /\ disabled' = TRUE
            /\ inflight' = inflight (+) SetToBag({Request(url, formData)})
    /\ event' = "submit"
    /\ thrown' = FALSE
    /\ UNCHANGED <<page, form, globals, preview, marksVars>>

\* The submit handlers of the three forms; they do not look at the button.
generate ==
    /\ page = "timetable"
    /\ LET formData == [exam_date |-> form.exam_date, session |-> form.session,
                        academic_year |-> form.academic_year,
                        exam_type |-> form.exam_type,
                        departments |-> form.departments]
       IN  send(GenerateUrl, formData,
                \/ formData.exam_date = ""
                \/ formData.session = ""
                \/ formData.academic_year = ""
                \/ formData.exam_type = ""
                \/ Cardinality(formData.departments) = 0)

allocate ==
    /\ page = "rooms"
    /\ LET formData == [exam_date |-> form.exam_date, session |-> form.session,
                        rooms |-> form.rooms,
                        students |-> IF globals.studentsForExam # Null
                                     THEN globals.studentsForExam[1] ELSE <<>>]
       IN  send(AllocateUrl, formData,
                \/ formData.exam_date = ""
                \/ formData.session = ""
                \/ Cardinality(formData.rooms) = 0)

assign ==
    /\ page = "invigilators"
    /\ LET formData == [exam_date |-> form.exam_date, session |-> form.session,
                        room_id |-> form.room_id, teachers |-> form.teachers]
       IN  send(AssignUrl, formData,
                \/ formData.exam_date = ""
                \/ formData.session = ""
                \/ formData.room_id = ""
                \/ Cardinality(formData.teachers) < 2)

\* What the server answers to a submit request: response.timetable,
\* response.allocations, response.assignments.
Result(req) ==
    CASE req.url = GenerateUrl ->
            <<[date |-> req.data.exam_date, session |-> req.data.session,
               department |-> CHOOSE d \in req.data.departments : TRUE]>>
      [] req.url = AllocateUrl ->
            [i \in 1..Len(req.data.students) |->
                [room_number |-> CHOOSE r \in req.data.rooms : TRUE,
                 student |-> req.data.students[i]]]
      [] req.url = AssignUrl ->
            <<[date |-> req.data.exam_date, session |-> req.data.session,
               room |-> req.data.room_id, invigilators |-> req.data.teachers]>>

\* TimetableGenerator.displayPreview: the morning exams under their heading,
\* then the afternoon exams under theirs.
timetableRows(timetable) ==
    LET IsMorning(e)   == e.session = "10AM"
        IsAfternoon(e) == e.session = "2PM"
        morningExams   == SelectSeq(timetable, IsMorning)
        afternoonExams == SelectSeq(timetable, IsAfternoon)
    IN  (IF Len(morningExams) > 0
         THEN <<[heading |-> "Morning Session (10:00 AM)"]>> \o morningExams ELSE <<>>)
        \o
        (IF Len(afternoonExams) > 0
         THEN <<[heading |-> "Afternoon Session (2:00 PM)"]>> \o afternoonExams ELSE <<>>)

\* displayPreview of the three modules: fill and show the preview; the room
\* allocator and the invigilator assigner keep the result in a window property.
displayPreview(url, result) ==
    CASE url = GenerateUrl ->
            /\ preview' = <<timetableRows(result)>>
            /\ UNCHANGED globals
      [] url = AllocateUrl ->
            /\ preview' = <<result>>
            /\ globals' = [globals EXCEPT !.currentAllocation = <<result>>]
      [] url = AssignUrl ->
            /\ preview' = <<result>>
            /\ globals' = [globals EXCEPT !.currentAssignments = <<result>>]

\* The success callback of a submit request.
success(req) ==
    /\ req \in Sent(SubmitUrls)
    /\ inflight' = inflight (-) SetToBag({req})
    /\ displayPreview(req.url, Result(req))
    /\ disabled' = FALSE
    /\ event' = "success"
    /\ thrown' = FALSE
    /\ UNCHANGED <<page, form, marksVars>>

\* The error callback of a submit request.  xhr.responseJSON is undefined
\* when the answer has no JSON body (the server is unreachable, or answers
\* with an error page): reading its error property is a TypeError that ends
\* the callback before the button is enabled.
error(req, hasJson) ==
    /\ req \in Sent(SubmitUrls)
    /\ inflight' = inflight (-) SetToBag({req})
    /\ disabled' = IF hasJson THEN FALSE ELSE disabled
    /\ thrown' = ~hasJson
    /\ event' = "error"
    /\ UNCHANGED <<page, form, globals, preview, marksVars>>

\* The start of a confirm function: return when the window property is
\* null or undefined, else post it.
post(url, property, key) ==
    /\ IF property = Null
       THEN UNCHANGED inflight
       ELSE /\ BagCardinality(inflight) < MaxInFlight
            /\ inflight' = inflight (+)
                               SetToBag({Request(url, [k \in {key} |-> property[1]])})
    /\ event' = "confirm"
    /\ thrown' = FALSE
    /\ UNCHANGED <<page, form, disabled, globals, preview, marksVars>>

\* window.confirmAllocation, window.confirmRoomAllocation and
\* window.confirmInvigilatorAssignment, called by the confirm button.
confirmAllocation ==
    /\ page = "timetable"
    /\ post(ConfirmTimetableUrl, globals.generatedTimetable, "timetable")

confirmRoomAllocation ==
    /\ page = "rooms"
    /\ post(ConfirmRoomsUrl, globals.currentAllocation, "allocations")

confirmInvigilatorAssignment ==
    /\ page = "invigilators"
    /\ post(ConfirmAssignmentUrl, globals.currentAssignments, "assignments")

\* The callbacks of a confirm request: on success an alert and
\* window.location.href = '/coordinator/schedule-view' (the timetable page)
\* or location.reload(); on error an alert, or a TypeError when the answer
\* has no JSON body.
confirmed(req, ok, hasJson) ==
    /\ req \in Sent(ConfirmUrls)
    /\ inflight' = inflight (-) SetToBag({req})
    /\ globals' = IF ~ok THEN globals
                  ELSE IF req.url = ConfirmTimetableUrl
                  THEN [globals EXCEPT !.location = <<"/coordinator/schedule-view">>]
                  ELSE [globals EXCEPT !.location = <<"reload">>]
    /\ event' = IF ok THEN "confirmed" ELSE "error"
    /\ thrown' = (~ok /\ ~hasJson)
    /\ UNCHANGED <<page, form, disabled, preview, marksVars>>

\* The browser carries out the navigation asked for through window.location:
\* the page is left, or loaded again and its $(document).ready run; what
\* was in flight is abandoned.
navigate ==
    /\ page \in Pages
    /\ globals.location # Null
    /\ page' = IF globals.location = <<"reload">> THEN page ELSE "schedule-view"
    /\ form' = IF globals.location = <<"reload">> THEN ReadyForm(page) ELSE <<>>
    /\ disabled' = FALSE
    /\ inflight' = IF globals.location = <<"reload">> THEN ReadyRequests(page)
                   ELSE EmptyBag
    /\ globals' = ReadyGlobals
    /\ preview' = <<>>
    /\ event' = "ready"
    /\ thrown' = FALSE
    /\ UNCHANGED marksVars

NextCoordinator ==
    \/ \E field \in {"exam_date", "session", "academic_year", "exam_type",
                     "departments", "rooms", "room_id", "teachers"} :
          \E v \in Options(field) : Change(field, v)
    \/ \E req \in BagToSet(inflight), ok \in BOOLEAN : loaded(req, ok)
    \/ generate
    \/ allocate
    \/ assign
    \/ \E req \in BagToSet(inflight) : success(req)
    \/ \E req \in BagToSet(inflight), hasJson \in BOOLEAN : error(req, hasJson)
    \/ confirmAllocation
    \/ confirmRoomAllocation
    \/ confirmInvigilatorAssignment
    \/ \E req \in BagToSet(inflight), ok \in BOOLEAN, hasJson \in BOOLEAN :
          confirmed(req, ok, hasJson)
    \/ navigate

SpecCoordinator == InitCoordinator /\ [][NextCoordinator]_vars

(***************************************************************************)
(* Properties.  They speak of a row whose handler has run on its current   *)
(* inputs, and read the numbers of the row as the handler does.            *)
(***************************************************************************)
Settled(id) == id \in DOMAIN value /\ phase[id] \in {"done", "again"}

\* The domain of the data model: class counts are non-negative and attended
\* does not exceed total; internals lie in [0,70], assignment and seminar in
\* [0,10].
InDomain(r) ==
    /\ r.total_classes >= 0
    /\ r.attended >= 0
    /\ r.attended <= r.total_classes
    /\ r.i1 \in 0..70
    /\ r.i2 \in 0..70
    /\ r.assign \in 0..10
    /\ r.sem \in 0..10

ShowsError(id) ==
    /\ totalText[id] = ERR
    /\ finalText[id] = ERR
    /\ gradeHtml[id] = Placeholder
    /\ riskHtml[id] = Placeholder

\* C1: after calculateRow, a row with any input outside its valid domain
\* (attended above total, a negative class count, a mark outside its range)
\* shows 'ERR' as total and final and the placeholder '-' as grade and risk.
C1_OutOfDomainShowsErr ==
    \A id \in RowIds : (Settled(id) /\ ~InDomain(readRow(id))) => ShowsError(id)

\* The validation rules of the row calculator, one per checked input.
Checked == {"attended_classes[]", "internal1[]", "internal2[]", "assignment[]", "seminar[]"}

Broken(n, r) ==
    CASE n = "attended_classes[]" -> r.attended > r.total_classes
      [] n = "internal1[]"        -> r.i1 \notin 0..70
      [] n = "internal2[]"        -> r.i2 \notin 0..70
      [] n = "assignment[]"       -> r.assign \notin 0..10
      [] n = "seminar[]"          -> r.sem \notin 0..10

Invalid(r) == \E n \in Checked : Broken(n, r)

Valid(r) == ~Invalid(r)

\* Round n / d (d > 0) to the nearest integer, a tie going up, in exact arithmetic.
RoundHalfUp(n, d) == (2 * n + d) \div (2 * d)

SumOfMarks(r) == r.i1 + r.i2 + r.assign + r.sem

ExactFinal(r) == RoundHalfUp(20 * SumOfMarks(r), 160)

ExactPercent(r) ==
    IF r.total_classes > 0 THEN RoundHalfUp(100 * r.attended, r.total_classes) ELSE 0

\* The grade and the risk named in the badges of a row.
GradeShown(id) == gradeHtml[id][4]

RiskShown(id) == riskHtml[id][4]

IsBadge(html) == Len(html) = 5

Reads(id, tc, att, i1, i2, asg, sem) ==
    readRow(id) = [total_classes |-> tc, attended |-> att, i1 |-> i1, i2 |-> i2,
                   assign |-> asg, sem |-> sem]

\* C2: whenever the handler has run on inputs that break a validation rule,
\* the hidden final-value field holds 0, whatever final the row held before.
C2_InvalidHiddenFinalZero ==
    \A id \in RowIds : (Settled(id) /\ Invalid(readRow(id))) => finalCalc[id] = <<"0">>

\* An invalid row (attended 40 of 0 classes) whose marks alone would give
\* final 16, with hidden final 0.
C2_Witness ==
    \E id \in RowIds :
        /\ Settled(id)
        /\ Reads(id, 0, 40, 60, 55, 8, 7)
        /\ finalCalc[id] = <<"0">>

\* C3: for valid inputs the risk is decided top-down: Critical when the
\* attendance percentage is below 70 or the final below 10, else Average when
\* the final is below 15, else Best when the final is 20, else Safe.
C3_RiskTopDown ==
    \A id \in RowIds :
        (Settled(id) /\ Valid(readRow(id))) =>
            LET p == ExactPercent(readRow(id))
                f == ExactFinal(readRow(id))
            IN  /\ IsBadge(riskHtml[id])
                /\ RiskShown(id) = IF p < 70 \/ f < 10 THEN "Critical"
                                   ELSE IF f < 15 THEN "Average"
                                   ELSE IF f = 20 THEN "Best"
                                   ELSE "Safe"

\* Scenario B: 30 of 50 classes attended and full marks: final 20, risk Critical.
C3_Witness ==
    \E id \in RowIds :
        /\ Settled(id)
        /\ Reads(id, 50, 30, 70, 70, 10, 10)
        /\ finalText[id] = <<"2", "0">>
        /\ RiskShown(id) = "Critical"

ScenarioD(id) == Settled(id) /\ Reads(id, 40, 40, 20, 20, 0, 0)

ScenarioDValues(id) ==
    /\ totalText[id] = <<"4", "0">>
    /\ finalText[id] = <<"5">>
    /\ IsBadge(gradeHtml[id]) /\ GradeShown(id) = "D"
    /\ computed[id] # <<>> /\ computed[id][1].attendance_percent = 100
    /\ IsBadge(riskHtml[id])

\* C4 as stated: 40 of 40 classes, internals 20 and 20, assignment and seminar
\* 0 give total 40, final 5, grade D, attendance 100 and risk Average.
C4_ScenarioD_Average ==
    \A id \in RowIds :
        ScenarioD(id) => (ScenarioDValues(id) /\ RiskShown(id) = "Average")

\* C4 amended: those inputs give total 40, final 5, grade D, attendance 100 and
\* risk Critical, the final being below 10.
C4_ScenarioD_Critical ==
    \A id \in RowIds :
        ScenarioD(id) => (ScenarioDValues(id) /\ RiskShown(id) = "Critical")

C4_Witness == \E id \in RowIds : ScenarioD(id) /\ finalCalc[id] = <<"5">>

\* C5: for valid inputs the grade is a function of the final alone, with
\* inclusive lower bounds taken top-down: 18 A+, 15 A, 12 B, 10 C, else D; the
\* final lies in 0..20 and gets exactly one grade.
C5_GradeThresholds ==
    \A id \in RowIds :
        (Settled(id) /\ Valid(readRow(id))) =>
            LET f == ExactFinal(readRow(id))
            IN  /\ f \in 0..20
                /\ finalText[id] = ToText(f)
                /\ IsBadge(gradeHtml[id])
                /\ GradeShown(id) = IF f >= 18 THEN "A+"
                                    ELSE IF f >= 15 THEN "A"
                                    ELSE IF f >= 12 THEN "B"
                                    ELSE IF f >= 10 THEN "C"
                                    ELSE "D"

\* Total 122 gives final 15, the lowest final graded A.
C5_Witness ==
    \E id \in RowIds :
        /\ Settled(id)
        /\ Valid(readRow(id))
        /\ SumOfMarks(readRow(id)) = 122
        /\ finalText[id] = <<"1", "5">>
        /\ GradeShown(id) = "A"

\* C6: for valid inputs the total is the sum of the four marks and the final
\* is 20 * total / 160 rounded to the nearest integer, a tie going up; the
\* final display and the hidden field hold that same value.
C6_FinalRoundedHalfUp ==
    \A id \in RowIds :
        (Settled(id) /\ Valid(readRow(id))) =>
            /\ totalText[id] = ToText(SumOfMarks(readRow(id)))
            /\ finalText[id] = ToText(ExactFinal(readRow(id)))
            /\ finalCalc[id] = finalText[id]

\* A tie: total 140 is 17.5 on the 20-point scale and shows final 18.
C6_Witness ==
    \E id \in RowIds :
        /\ Settled(id)
        /\ Valid(readRow(id))
        /\ SumOfMarks(readRow(id)) = 140
        /\ finalText[id] = <<"1", "8">>
        /\ finalCalc[id] = <<"1", "8">>

\* C7: for every input the handler accepts, the attendance percentage it uses
\* is 100 * attended / total rounded to the nearest integer (0 when there are
\* no classes), an integer in 0..100.
C7_AttendancePercentExact ==
    \A id \in RowIds :
        (Settled(id) /\ computed[id] # <<>>) =>
            /\ computed[id][1].attendance_percent = ExactPercent(readRow(id))
            /\ computed[id][1].attendance_percent \in 0..100

\* C8: for valid inputs the handler computes a total in 0..160 and a final in
\* 0..20, and whatever it computes lies in those ranges.
C8_TotalAndFinalRanges ==
    \A id \in RowIds :
        Settled(id) =>
            /\ Valid(readRow(id)) => computed[id] # <<>>
            /\ computed[id] # <<>> =>
                  /\ computed[id][1].total \in 0..160
                  /\ computed[id][1].final \in 0..20
                  /\ totalText[id] = ToText(computed[id][1].total)
                  /\ finalText[id] = ToText(computed[id][1].final)

\* Full marks: total 160 and final 20.
C8_Witness ==
    \E id \in RowIds :
        /\ Settled(id)
        /\ computed[id] # <<>>
        /\ computed[id][1].total = 160
        /\ computed[id][1].final = 20

\* C9: after a call, each checked input carries the error mark exactly when
\* its own rule is broken by the current inputs, whatever the other inputs
\* hold and whatever marks the row carried before.
C9_MarksPerField ==
    \A id \in RowIds :
        Settled(id) =>
            \A n \in Checked : n \in errorClass[id] <=> Broken(n, readRow(id))

\* Two rules broken at once and both marked, the other inputs unmarked.
C9_Witness ==
    \E id \in RowIds :
        /\ Settled(id)
        /\ Broken("attended_classes[]", readRow(id))
        /\ Broken("seminar[]", readRow(id))
        /\ errorClass[id] = {"attended_classes[]", "seminar[]"}

\* What the row shows.
Shown(id) ==
    [errorClass |-> errorClass[id], totalText |-> totalText[id],
     finalText |-> finalText[id], finalCalc |-> finalCalc[id],
     gradeHtml |-> gradeHtml[id], riskHtml |-> riskHtml[id]]

\* What calculateRow writes for a row never touched before that reads r.
Fresh(r) ==
    IF hasError(r)
    THEN [errorClass |-> outOfRange(r), totalText |-> ERR, finalText |-> ERR,
          finalCalc |-> <<"0">>, gradeHtml |-> Placeholder, riskHtml |-> Placeholder]
    ELSE LET f == final(total(r.i1, r.i2, r.assign, r.sem))
         IN  [errorClass |-> {},
              totalText |-> ToText(total(r.i1, r.i2, r.assign, r.sem)),
              finalText |-> ToText(f), finalCalc |-> ToText(f),
              gradeHtml |-> gradeBadge(grade(f)),
              riskHtml  |-> riskBadge(risk(attendance_percent(r.total_classes, r.attended), f))]

\* C10: every run of the handler on an edited row leaves the row showing what
\* its current inputs alone determine: no 'ERR', placeholder, error mark or
\* value of an earlier state remains.
C10_OutputsFromCurrentInputs ==
    [][\A id \in RowIds :
          (phase[id] # "done" /\ phase'[id] = "done") =>
              (value'[id] = value[id] /\ Shown(id)' = Fresh(readRow(id)))]_vars

\* The user has just replaced the invalid values by valid ones: the row still
\* shows 'ERR', placeholders and an error mark of the earlier state, and the
\* handler is about to run on valid inputs.
C10_Witness ==
    \E id \in RowIds :
        /\ phase[id] = "edited"
        /\ Valid(readRow(id))
        /\ ShowsError(id)
        /\ errorClass[id] # {}

\* Everything of a row: its inputs, what it shows and its output targets.
RowState(id) == [value |-> value[id], shown |-> Shown(id), targets |-> targets[id]]

\* C11: a step changes nothing of any row but the one whose handler ran (or
\* whose input was edited), and once the handler has run for every row, in
\* whichever order, each row shows what its own inputs determine.
C11_OnlyOwnRow ==
    /\ [](\A id \in DOMAIN value :
             (\A other \in DOMAIN value : Settled(other)) =>
                 Shown(id) = Fresh(readRow(id)))
    /\ [][\A id \in DOMAIN value :
             phase'[id] = phase[id] => RowState(id)' = RowState(id)]_vars

\* Both handlers have run: one row shows 'ERR' with a mark, the other a result.
C11_Witness ==
    \E id \in DOMAIN value :
        \E other \in DOMAIN value \ {id} :
            /\ Settled(id) /\ ShowsError(id) /\ errorClass[id] # {}
            /\ Settled(other) /\ IsBadge(gradeHtml[other]) /\ errorClass[other] = {}

\* C12: a call on a row whose handler has already run on its current inputs
\* leaves the total, the final, the hidden final, the badges and the error
\* marks of the row exactly as they were.
C12_Idempotent ==
    [][\A id \in DOMAIN value :
          (Settled(id) /\ phase'[id] = "again") =>
              (value'[id] = value[id] /\ Shown(id)' = Shown(id))]_vars

\* The handler has run twice on a valid row and twice on an invalid one.
C12_Witness ==
    \E id \in DOMAIN value :
        \E other \in DOMAIN value \ {id} :
            /\ phase[id] = "again" /\ Valid(readRow(id)) /\ IsBadge(riskHtml[id])
            /\ phase[other] = "again" /\ Invalid(readRow(other))
            /\ ShowsError(other) /\ errorClass[other] # {}

\* Two rows that differ in internal1 alone, the first below the second.
Raised(low, high) ==
    /\ Settled(low) /\ Valid(readRow(low))
    /\ Settled(high) /\ Valid(readRow(high))
    /\ readRow(low).i1 < readRow(high).i1
    /\ [readRow(low) EXCEPT !.i1 = 0] = [readRow(high) EXCEPT !.i1 = 0]

\* C13: of two valid rows that differ in internal1 alone, the one with the
\* larger internal1 gets a total and a final that are not lower, in what the
\* handler computes and in what it shows.
C13_Internal1Monotone ==
    \A low \in DOMAIN value, high \in DOMAIN value :
        Raised(low, high) =>
            /\ computed[low] # <<>> /\ computed[high] # <<>>
            /\ computed[low][1].total <= computed[high][1].total
            /\ computed[low][1].final <= computed[high][1].final
            /\ totalText[low] = ToText(computed[low][1].total)
            /\ finalText[low] = ToText(computed[low][1].final)
            /\ totalText[high] = ToText(computed[high][1].total)
            /\ finalText[high] = ToText(computed[high][1].final)

\* Internal1 raised from 0 to 70: the total rises and the final with it;
\* and raised by one with the final staying the same.
C13_Witness ==
    \E low \in DOMAIN value, high \in DOMAIN value :
        /\ Raised(low, high)
        /\ readRow(high).i1 = readRow(low).i1 + 1
        /\ computed[low][1].total < computed[high][1].total
        /\ computed[low][1].final = computed[high][1].final

\* C14: on the timetable page, once a generated timetable is previewed, the
\* confirm function leaves a request to the confirm-timetable endpoint in flight.
C14_ConfirmSendsTimetable ==
    (page = "timetable" /\ event = "confirm" /\ preview # <<>>) =>
        Sent({ConfirmTimetableUrl}) # {}

\* C17: on each coordinator page the submit button is disabled exactly while
\* the request of its submit handler is in flight.
C17_DisabledWhileInFlight ==
    page \in Pages => (disabled <=> Sent(SubmitUrls) # {})

\* C18: the students of every allocate request are those enrolled for the
\* exam date and session of that request.
C18_StudentsOfSelectedExam ==
    \A req \in Sent({AllocateUrl}) :
        req.data.students = Enrolment(req.data.exam_date, req.data.session)

\* C15: no call of calculateRow ends in an error raised to its caller.
C15_NeverThrows == thrown = FALSE

\* C16: for valid inputs the grade and the risk shown agree: grade D goes
\* with risk Critical, risk Average with grade B or C, risk Best with grade
\* A+, final 20 and an attendance percentage of at least 70, risk Safe with
\* grade A or A+.
C16_GradeRiskConsistent ==
    \A id \in RowIds :
        (Settled(id) /\ Valid(readRow(id))) =>
            /\ IsBadge(gradeHtml[id]) /\ IsBadge(riskHtml[id])
            /\ computed[id] # <<>>
            /\ GradeShown(id) = "D" => RiskShown(id) = "Critical"
            /\ RiskShown(id) = "Average" => GradeShown(id) \in {"B", "C"}
            /\ RiskShown(id) = "Best" =>
                  /\ GradeShown(id) = "A+"
                  /\ computed[id][1].final = 20
                  /\ computed[id][1].attendance_percent >= 70
            /\ RiskShown(id) = "Safe" => GradeShown(id) \in {"A", "A+"}

\* A row at risk Best with grade A+, and so with final 20.
C16_Witness ==
    \E id \in RowIds :
        /\ Settled(id) /\ Valid(readRow(id))
        /\ IsBadge(riskHtml[id]) /\ RiskShown(id) = "Best"
        /\ GradeShown(id) = "A+"
        /\ finalText[id] = <<"2", "0">>

\* The text of an input is not a number: parseInt gives NaN for it.
NonNumeric(text) == parseInt(text).isNaN

NumberOrZero(text) == IF NonNumeric(text) THEN 0 ELSE parseInt(text).num

\* The numbers of a row with 0 for every input that is not a number.
Zeroed(id) ==
    [total_classes |-> NumberOrZero(value[id]["total_classes[]"]),
     attended      |-> NumberOrZero(value[id]["attended_classes[]"]),
     i1            |-> NumberOrZero(value[id]["internal1[]"]),
     i2            |-> NumberOrZero(value[id]["internal2[]"]),
     assign        |-> NumberOrZero(value[id]["assignment[]"]),
     sem           |-> NumberOrZero(value[id]["seminar[]"])]

MarkInputs == {"internal1[]", "internal2[]", "assignment[]", "seminar[]"}

\* C19: an input that is empty or not a number counts as 0: the row shows
\* what it would show with 0 typed there, and no such mark input is marked;
\* a row with no number in any input shows total 0, final 0, hidden final 0,
\* grade D and risk Critical, with no error mark.
C19_BlankCountsAsZero ==
    \A id \in DOMAIN value :
        Settled(id) =>
            /\ Shown(id) = Fresh(Zeroed(id))
            /\ \A n \in MarkInputs : NonNumeric(value[id][n]) => n \notin errorClass[id]
            /\ (\A n \in InputNames : NonNumeric(value[id][n])) =>
                  /\ errorClass[id] = {}
                  /\ totalText[id] = <<"0">>
                  /\ finalText[id] = <<"0">>
                  /\ finalCalc[id] = <<"0">>
                  /\ gradeHtml[id] = gradeBadge("D")
                  /\ riskHtml[id] = riskBadge("Critical")

\* One row with every input empty, the other with empty inputs and texts
\* that are not numbers, both showing total 0 and grade D.
C19_Witness ==
    \E id \in DOMAIN value :
        \E other \in DOMAIN value \ {id} :
            /\ Settled(id)
            /\ \A n \in InputNames : value[id][n] = Blank
            /\ totalText[id] = <<"0">> /\ GradeShown(id) = "D"
            /\ Settled(other)
            /\ value[other]["internal1[]"] = NotANumber
            /\ value[other]["seminar[]"] = NotANumber
            /\ \A n \in InputNames : NonNumeric(value[other][n])
            /\ totalText[other] = <<"0">> /\ RiskShown(other) = "Critical"

====
